---- MODULE Spec2Model ----
(***************************************************************************)
(* streamingphish: the feature extractor (features.py), the certstream     *)
(* scoring callback (predictor.py) and the command-line menu with the      *)
(* classifier store and the configuration (cli.py, trainer.py,             *)
(* database.py, configuration.py).                                         *)
(*                                                                         *)
(* Python strings are sequences of one-character strings, so that prefix   *)
(* tests, slicing, splitting and name formatting are computed and not      *)
(* assumed.  Probabilities and thresholds are integers in twentieths       *)
(* (0.95 = 19, 0.9 = 18, 0.5 = 10, 0.1 = 2); the code only compares them.  *)
(***************************************************************************)
EXTENDS Integers, Sequences, FiniteSets, TLC

VARIABLES
    features,      \* PhishFeatures instance: its five loaded lists, or NoFeatures
    fe_call,       \* the last compute_features call: arguments and outcome
    classifier,    \* PhishPredictor._classifier: the fitted model
    log_tiers,     \* PhishPredictor._log_tiers, in the dict's iteration order
    pc,            \* where the certstream listener is: "listening" | "returned"
    message,       \* the message the callback was given (all_domains after the call)
    hosts,         \* _certstream_mode: local hosts when the scoring loop ran
    scores,        \* _certstream_mode: local scores
    raised,        \* what _score raised inside the try block, "none" if nothing
    fail_at,       \* position of the host tldextract raised on, 0 if on none
    errlog,        \* logging.error calls made by this callback
    events,        \* _print_result calls made by this callback, in order
    score_calls,   \* number of _score calls made by this callback
    clf_calls,     \* number of predict_proba calls made by this callback
    propagated,    \* TRUE when the callback let an exception escape
    norm,          \* the _remove_common_hosts call made last, if it was the last call
    sample_call,   \* the sample dict built last and its analysis, if that was last
    disk,          \* what the five list directories hold now
    config,        \* PhishCLI._phish_config: the active classifier name in memory
    config_file,   \* config.yaml: the active classifier name on disk
    store,         \* the classifiers collection: documents in insertion order
    cli_call,      \* what the last menu handler did: selection, output, store calls
    db_call,       \* the PhishDB method called last on the store, and what it returned
    load_call      \* the last _load_training_data call: the files read and its result

\* The variables of the feature extractor's sample, and those of the menu.
sampleVars == <<norm, sample_call>>

cliVars == <<disk, config, config_file, store, cli_call>>

\* The variables of the calls made on PhishDB and PhishTrainer directly.
auxVars == <<db_call, load_call>>

vars == <<features, fe_call, classifier, log_tiers, pc, message, hosts, scores,
          raised, fail_at, errlog, events, score_calls, clf_calls, propagated,
          norm, sample_call, disk, config, config_file, store, cli_call,
          db_call, load_call>>

(***************************************************************************)
(* Bounds of the model.                                                    *)
(***************************************************************************)
MaxBatch == 3      \* longest all_domains list a certificate_update carries
MaxFqdns == 2      \* longest fqdns list given to compute_features directly

(***************************************************************************)
(* Strings.                                                                *)
(***************************************************************************)
\* The characters of the model in code-point order ('*' < '-' < '.' < digits
\* < '_' < lower-case letters), as Python compares strings.
Ascii == <<"*", "-", ".", "0", "1", "2", "3", "4", "5", "6", "7", "8", "9", "_",
           "a", "b", "c", "d", "e", "f", "g", "h", "i", "j", "k", "l", "m",
           "n", "o", "p", "q", "r", "s", "t", "u", "v", "w", "x", "y", "z">>

CodePoint(c) == CHOOSE i \in 1..Len(Ascii) : Ascii[i] = c

\* a < b for Python strings.
RECURSIVE StrLess(_, _)
StrLess(a, b) ==
    IF b = <<>> THEN FALSE
    ELSE IF a = <<>> THEN TRUE
    ELSE IF Head(a) = Head(b) THEN StrLess(Tail(a), Tail(b))
    ELSE CodePoint(Head(a)) < CodePoint(Head(b))

\* s.startswith(p)
StartsWith(s, p) == Len(s) >= Len(p) /\ SubSeq(s, 1, Len(p)) = p

\* s[n:]
SliceFrom(s, n) == SubSeq(s, n + 1, Len(s))

\* sub in s, for strings
Substring(sub, s) ==
    \E i \in 0..(Len(s) - Len(sub)) : SubSeq(s, i + 1, i + Len(sub)) = sub

\* s.count(c) for a one-character c
RECURSIVE CountChar(_, _)
CountChar(s, c) ==
    IF s = <<>> THEN 0
    ELSE (IF Head(s) = c THEN 1 ELSE 0) + CountChar(Tail(s), c)

\* x in lst, for lists
InList(x, lst) == \E i \in 1..Len(lst) : lst[i] = x

\* lst.remove(x): drops the first occurrence of x
RECURSIVE ListRemove(_, _)
ListRemove(lst, x) ==
    IF lst = <<>> THEN <<>>
    ELSE IF Head(lst) = x THEN Tail(lst)
    ELSE <<Head(lst)>> \o ListRemove(Tail(lst), x)

\* fqdn.split(".", 1): at most one split, at the first '.'
RECURSIVE FirstDot(_, _)
FirstDot(s, i) ==
    IF i > Len(s) THEN 0 ELSE IF s[i] = "." THEN i ELSE FirstDot(s, i + 1)

SplitOnce(s) ==
    LET d == FirstDot(s, 1)
    IN  IF d = 0 THEN <<s>> ELSE <<SubSeq(s, 1, d - 1), SubSeq(s, d + 1, Len(s))>>

\* s.split("."): every label, empty ones included
RECURSIVE SplitDots(_, _)
SplitDots(s, cur) ==
    IF s = <<>> THEN <<cur>>
    ELSE IF Head(s) = "." THEN <<cur>> \o SplitDots(Tail(s), <<>>)
    ELSE SplitDots(Tail(s), Append(cur, Head(s)))

\* ".".join(labels)
RECURSIVE JoinDots(_)
JoinDots(labels) ==
    IF labels = <<>> THEN <<>>
    ELSE IF Len(labels) = 1 THEN labels[1]
    ELSE labels[1] \o <<".">> \o JoinDots(Tail(labels))

\* \w of the re module: letters, digits and the underscore
WordChars == {Ascii[i] : i \in 4..Len(Ascii)}

\* re.split('\W+', s): cut at every run of non-word characters; a run at the
\* start or at the end of s leaves an empty string there.
RECURSIVE ReSplit(_, _, _)
ReSplit(s, cur, inRun) ==
    IF s = <<>> THEN <<cur>>
    ELSE IF Head(s) \in WordChars THEN ReSplit(Tail(s), Append(cur, Head(s)), FALSE)
    ELSE IF inRun THEN ReSplit(Tail(s), cur, TRUE)
    ELSE <<cur>> \o ReSplit(Tail(s), <<>>, TRUE)

\* Levenshtein.distance(a, b)
Min2(x, y) == IF x < y THEN x ELSE y

RECURSIVE Distance(_, _)
Distance(a, b) ==
    IF a = <<>> THEN Len(b)
    ELSE IF b = <<>> THEN Len(a)
    ELSE IF Head(a) = Head(b) THEN Distance(Tail(a), Tail(b))
    ELSE 1 + Min2(Distance(Tail(a), Tail(b)),
                  Min2(Distance(Tail(a), b), Distance(a, Tail(b))))

(***************************************************************************)
(* Python dicts: sequences of <<key, value>> pairs in insertion order.     *)
(***************************************************************************)
DictHas(d, k) == \E i \in 1..Len(d) : d[i][1] = k

DictGet(d, k) == d[CHOOSE i \in 1..Len(d) : d[i][1] = k][2]

\* d[k] = v: an existing key keeps its place and takes the new value
DictSet(d, k, v) ==
    IF DictHas(d, k)
    THEN [i \in 1..Len(d) |-> IF d[i][1] = k THEN <<k, v>> ELSE d[i]]
    ELSE Append(d, <<k, v>>)

\* {**d, **other}
RECURSIVE DictMerge(_, _)
DictMerge(d, other) ==
    IF other = <<>> THEN d
    ELSE DictMerge(DictSet(d, Head(other)[1], Head(other)[2]), Tail(other))

DictKeys(d) == [i \in 1..Len(d) |-> d[i][1]]

DictValues(d) == [i \in 1..Len(d) |-> d[i][2]]

\* sorted(d.items()): the keys of a dict are distinct, so the order of the
\* (key, value) tuples is the order of the keys.
RECURSIVE SortedInsert(_, _)
SortedInsert(sorted, item) ==
    IF sorted = <<>> THEN <<item>>
    ELSE IF StrLess(item[1], Head(sorted)[1]) THEN <<item>> \o sorted
    ELSE <<Head(sorted)>> \o SortedInsert(Tail(sorted), item)

\* Variant: the sort is left out.
UnsortedItems(d) == d

RECURSIVE SortedItems(_)
SortedItems(d) ==
    IF d = <<>> THEN <<>>
    ELSE SortedInsert(SortedItems(Tail(d)), Head(d))

(***************************************************************************)
(* Names and list contents the model draws its inputs from.                *)
(***************************************************************************)
HostA == <<"a", ".", "t", "k">>
HostB == <<"b", ".", "t", "k">>
Wild(h) == <<"*", ".">> \o h

Hosts == {HostA, HostB, Wild(HostA), Wild(HostB)}

HostKw == <<"a", ".", "k", "w">>

\* Every name the model gives to compute_features
Fqdns == Hosts \cup {HostKw}

Str_tk == <<"t", "k">>
Str_kw == <<"k", "w">>
Str_tld == <<"t", "l", "d">>

FeatureLists(brands, keywords, fqdn_keywords, similarity_words, tlds) ==
    [constructed |-> TRUE, brands |-> brands, keywords |-> keywords,
     fqdn_keywords |-> fqdn_keywords, similarity_words |-> similarity_words,
     tlds |-> tlds]

\* Contents of the five list directories: a plain configuration, one with an
\* entry listed twice, and one where the keyword 'tld' and the TLD 'kw' both
\* format to the feature name 'tld_kw'.
PlainLists ==
    FeatureLists(<<<<"a">>>>, <<<<"b">>>>, <<Str_tk>>, <<<<"a", "b">>>>, <<Str_tk>>)

TwiceListed ==
    FeatureLists(<<<<"a">>>>, <<<<"b">>, <<"b">>>>, <<Str_tk>>, <<<<"a", "b">>>>,
                 <<Str_tk, Str_kw>>)

CollidingLists ==
    FeatureLists(<<<<"a">>>>, <<Str_tld>>, <<Str_tk>>, <<<<"a", "b">>>>,
                 <<Str_tk, Str_kw>>)

FeatureConfigs == {PlainLists, TwiceListed, CollidingLists}

(***************************************************************************)
(* features.py: PhishFeatures.                                             *)
(***************************************************************************)
NoFeatures == [constructed |-> FALSE]

\* tldextract's public-suffix list, cut down to the suffixes of the model.
PublicSuffixes == {<<"t", "k">>, <<"k", "w">>}

\* PhishFeatures._fqdn_parts: tldextract.extract(fqdn) splits the name into
\* subdomain, registrable domain label and public suffix.
FqdnParts(fqdn) ==
    LET labels == SplitDots(fqdn, <<>>)
        n == Len(labels)
        hasSuffix == labels[n] \in PublicSuffixes
        rest == IF hasSuffix THEN SubSeq(labels, 1, n - 1) ELSE labels
        m == Len(rest)
    IN  [subdomain |-> IF m > 1 THEN JoinDots(SubSeq(rest, 1, m - 1)) ELSE <<>>,
         domain |-> IF m > 0 THEN rest[m] ELSE <<>>,
         tld |-> IF hasSuffix THEN labels[n] ELSE <<>>]

common_hosts == {<<"*">>, <<"w", "w", "w">>, <<"m", "a", "i", "l">>,
                 <<"c", "p", "a", "n", "e", "l">>,
                 <<"w", "e", "b", "m", "a", "i", "l">>,
                 <<"w", "e", "b", "d", "i", "s", "k">>,
                 <<"a", "u", "t", "o", "d", "i", "s", "c", "o", "v", "e", "r">>}

\* Variant: the left-most label is cut off whatever it is.
RemoveFirstLabel(fqdn) ==
    LET fqdn_parts == SplitOnce(fqdn)
    IN  IF Len(fqdn_parts) > 1 THEN fqdn_parts[2] ELSE fqdn

\* PhishFeatures._remove_common_hosts
RemoveCommonHosts(fqdn) ==
    LET fqdn_parts == SplitOnce(fqdn)
    IN  IF Len(fqdn_parts) > 1 /\ fqdn_parts[1] \in common_hosts
        THEN fqdn_parts[2]
        ELSE fqdn

\* The sample dictionary compute_features builds for one fqdn.
MakeSample(fqdn) ==
    LET parts == FqdnParts(fqdn)
    IN  [subdomain |-> parts.subdomain, domain |-> parts.domain, tld |-> parts.tld,
         fqdn |-> RemoveCommonHosts(fqdn),
         fqdn_words |-> ReSplit(fqdn, <<>>, FALSE)]

Bit(b) == IF b THEN 1 ELSE 0

\* _fe_extract_tld
RECURSIVE FeExtractTldLoop(_, _, _)
FeExtractTldLoop(tlds, sample, result) ==
    IF tlds = <<>> THEN result
    ELSE FeExtractTldLoop(Tail(tlds), sample,
            DictSet(result, <<"t", "l", "d", "_">> \o Head(tlds),
                    Bit(Head(tlds) = sample.tld)))

FeExtractTld(self, sample) == FeExtractTldLoop(self.tlds, sample, <<>>)

\* _fe_brand_presence
RECURSIVE FeBrandPresenceLoop(_, _, _)
FeBrandPresenceLoop(brands, sample, result) ==
    IF brands = <<>> THEN result
    ELSE LET item == Head(brands)
             r1 == DictSet(result,
                      item \o <<"_", "b", "r", "a", "n", "d", "_",
                                "s", "u", "b", "d", "o", "m", "a", "i", "n">>,
                      Bit(Substring(item, sample.subdomain)))
             r2 == DictSet(r1,
                      item \o <<"_", "b", "r", "a", "n", "d", "_",
                                "d", "o", "m", "a", "i", "n">>,
                      Bit(Substring(item, sample.domain)))
         IN  FeBrandPresenceLoop(Tail(brands), sample, r2)

FeBrandPresence(self, sample) == FeBrandPresenceLoop(self.brands, sample, <<>>)

\* _fe_keyword_match
RECURSIVE FeKeywordMatchLoop(_, _, _)
FeKeywordMatchLoop(keywords, sample, result) ==
    IF keywords = <<>> THEN result
    ELSE FeKeywordMatchLoop(Tail(keywords), sample,
            DictSet(result, Head(keywords) \o <<"_", "k", "w">>,
                    Bit(Substring(Head(keywords), sample.fqdn))))

FeKeywordMatch(self, sample) == FeKeywordMatchLoop(self.keywords, sample, <<>>)

\* _fe_keyword_match_fqdn_words
RECURSIVE FeKeywordMatchFqdnWordsLoop(_, _, _)
FeKeywordMatchFqdnWordsLoop(keywords, sample, result) ==
    IF keywords = <<>> THEN result
    ELSE FeKeywordMatchFqdnWordsLoop(Tail(keywords), sample,
            DictSet(result,
                    Head(keywords) \o <<"_", "k", "w", "_", "f", "q", "d", "n", "_",
                                        "w", "o", "r", "d", "s">>,
                    Bit(InList(Head(keywords), sample.fqdn_words))))

FeKeywordMatchFqdnWords(self, sample) ==
    FeKeywordMatchFqdnWordsLoop(self.fqdn_keywords, sample, <<>>)

\* math.log(k, 2) in thousandths, for k = 1..8
Log2Milli == <<0, 1000, 1585, 2000, 2322, 2585, 2807, 3000>>

RECURSIVE SumOver(_, _, _)
SumOver(chars, s, n) ==
    IF chars = {} THEN 0
    ELSE LET c == CHOOSE x \in chars : TRUE
             count == CountChar(s, c)
         IN  count * (Log2Milli[n] - Log2Milli[count]) + SumOver(chars \ {c}, s, n)

\* Variant: the entropy is taken over the whole normalised name.
FeComputeFqdnEntropy(sample) ==
    LET d == sample.fqdn
        lns == Len(d)
        p == {d[i] : i \in 1..lns}
    IN  <<<<<<"e", "n", "t", "r", "o", "p", "y">>,
            IF p = {} THEN 0 ELSE SumOver(p, d, lns) \div lns>>>>

\* _fe_compute_domain_entropy, in thousandths of a bit:
\* -sum(count/n * log2(count/n)) = sum(count * (log2 n - log2 count)) / n.
\* For the empty label the Counter is empty and the sum has no term.
FeComputeDomainEntropy(sample) ==
    LET d == sample.domain
        lns == Len(d)
        p == {d[i] : i \in 1..lns}
    IN  <<<<<<"e", "n", "t", "r", "o", "p", "y">>,
            IF p = {} THEN 0 ELSE SumOver(p, d, lns) \div lns>>>>

\* Variant: every word assigns the indicator, so the last word decides.
RECURSIVE Lev1WordsLastToken(_, _, _)
Lev1WordsLastToken(words, key, value) ==
    IF words = <<>> THEN value
    ELSE Lev1WordsLastToken(Tail(words), key, Bit(Distance(Head(words), key) = 1))

\* _fe_check_phishing_similarity_words
RECURSIVE Lev1Words(_, _, _)
Lev1Words(words, key, value) ==
    IF words = <<>> THEN value
    ELSE Lev1Words(Tail(words), key,
                   IF Distance(Head(words), key) = 1 THEN 1 ELSE value)

RECURSIVE FeSimilarityLoop(_, _, _)
FeSimilarityLoop(keys, sample, result) ==
    IF keys = <<>> THEN result
    ELSE LET name == Head(keys) \o <<"_", "l", "e", "v", "_", "1">>
         IN  FeSimilarityLoop(Tail(keys), sample,
                DictSet(result, name, Lev1Words(sample.fqdn_words, Head(keys), 0)))

FeCheckPhishingSimilarityWords(self, sample) ==
    FeSimilarityLoop(self.similarity_words, sample, <<>>)

\* Variant: the dashes are counted whether or not 'xn--' is in the name.
FeNumberOfDashesLiteral(sample) ==
    <<<<<<"n", "u", "m", "_", "d", "a", "s", "h", "e", "s">>,
        CountChar(sample.fqdn, "-")>>>>

\* _fe_number_of_dashes
FeNumberOfDashes(sample) ==
    <<<<<<"n", "u", "m", "_", "d", "a", "s", "h", "e", "s">>,
        IF Substring(<<"x", "n", "-", "-">>, sample.fqdn)
        THEN 0 ELSE CountChar(sample.fqdn, "-")>>>>

\* _fe_number_of_periods
FeNumberOfPeriods(sample) ==
    <<<<<<"n", "u", "m", "_", "p", "e", "r", "i", "o", "d", "s">>,
        CountChar(sample.fqdn, ".")>>>>

\* The results of the _fe_ methods in the order dir(self) lists them
\* (alphabetical by method name).
FeResults(self, sample) ==
    <<FeBrandPresence(self, sample),
      FeCheckPhishingSimilarityWords(self, sample),
      FeComputeDomainEntropy(sample),
      FeExtractTld(self, sample),
      FeKeywordMatch(self, sample),
      FeKeywordMatchFqdnWords(self, sample),
      FeNumberOfDashes(sample),
      FeNumberOfPeriods(sample)>>

\* analysis = {**analysis, **result} for each method in turn
RECURSIVE MergeAll(_, _)
MergeAll(analysis, results) ==
    IF results = <<>> THEN analysis
    ELSE MergeAll(DictMerge(analysis, Head(results)), Tail(results))

\* One pass of the fqdn loop of compute_features: the sorted analysis of a name
Analyse(self, fqdn) == SortedItems(MergeAll(<<>>, FeResults(self, MakeSample(fqdn))))

\* Analyse, tabulated once over the configurations and names of the model.
AnalysisOf == [self \in FeatureConfigs |-> [fqdn \in Fqdns |-> Analyse(self, fqdn)]]

\* The fqdn loop of compute_features.  tldextract is a library: failAt is the
\* position (0: none) of the name on which tldextract.extract raises.
RECURSIVE FeaturesLoop(_, _, _, _, _)
FeaturesLoop(self, fqdns, i, failAt, feats) ==
    IF i > Len(fqdns) THEN [raised |-> "none", features |-> feats]
    ELSE IF i = failAt THEN [raised |-> "extract", features |-> feats]
    ELSE FeaturesLoop(self, fqdns, i + 1, failAt,
                      Append(feats, AnalysisOf[self][fqdns[i]]))

\* compute_features after the fqdn loop: the values of each analysis and,
\* unless values_only, the keys of the first one.  columns are the keys
\* np.fromiter leaves behind, row by row (kept for the checks).
FeaturesResult(feats, values_only) ==
    IF ~values_only /\ feats = <<>>
    THEN \* features[0] on an empty list
         [raised |-> "IndexError", values |-> <<>>, columns |-> <<>>,
          has_names |-> FALSE, names |-> <<>>]
    ELSE [raised |-> "none",
          values |-> [i \in 1..Len(feats) |-> DictValues(feats[i])],
          columns |-> [i \in 1..Len(feats) |-> DictKeys(feats[i])],
          has_names |-> ~values_only,
          names |-> IF values_only THEN <<>> ELSE DictKeys(feats[1])]

ComputeFeaturesAfterLoop(loop, values_only) ==
    IF loop.raised # "none"
    THEN [raised |-> loop.raised, values |-> <<>>, columns |-> <<>>,
          has_names |-> FALSE, names |-> <<>>]
    ELSE FeaturesResult(loop.features, values_only)

\* PhishFeatures.compute_features
ComputeFeatures(self, fqdns, values_only, failAt) ==
    ComputeFeaturesAfterLoop(FeaturesLoop(self, fqdns, 1, failAt, <<>>), values_only)

(***************************************************************************)
(* predictor.py: PhishPredictor, certstream mode.                          *)
(***************************************************************************)
\* The wildcard loop of _certstream_mode.  "for host in hosts" walks the list
\* by index while the body removes entries from that same list: after a
\* removal in front of the index the next entry is stepped over.
\* Variant: the removal drops the wildcard entry, not the literal one.
RECURSIVE WildcardLoopDropsWildcard(_, _)
WildcardLoopDropsWildcard(hs, i) ==
    IF i > Len(hs) THEN hs
    ELSE LET host == hs[i]
         IN  IF StartsWith(host, <<"*", ".">>) /\ InList(SliceFrom(host, 2), hs)
             THEN WildcardLoopDropsWildcard(ListRemove(hs, host), i + 1)
             ELSE WildcardLoopDropsWildcard(hs, i + 1)

RECURSIVE WildcardLoop(_, _)
WildcardLoop(hs, i) ==
    IF i > Len(hs) THEN hs
    ELSE LET host == hs[i]
         IN  IF StartsWith(host, <<"*", ".">>) /\ InList(SliceFrom(host, 2), hs)
             THEN WildcardLoop(ListRemove(hs, SliceFrom(host, 2)), i + 1)
             ELSE WildcardLoop(hs, i + 1)

RemoveWildcardDuplicates(all_domains) == WildcardLoop(all_domains, 1)

\* classifier.predict_proba(values)[:, 1].  The fitted model is a function of
\* the row: it separates on one column and answers one of two probabilities.
\* The library may raise (clfRaises) instead of answering.
PredictProba(clf, values, clfRaises) ==
    IF clfRaises THEN [raised |-> "classifier", probs |-> <<>>]
    ELSE [raised |-> "none",
          probs |-> [i \in 1..Len(values) |->
                        IF values[i][clf.column] >= 1 THEN clf.on ELSE clf.off]]

\* _score once compute_features has returned or raised
ScoreOf(clf, sample_features, clfRaises) ==
    IF sample_features.raised # "none"
    THEN [raised |-> sample_features.raised, result |-> <<>>, clf_calls |-> 0]
    ELSE IF clfRaises
    THEN [raised |-> "classifier", result |-> <<>>, clf_calls |-> 1]
    ELSE [raised |-> "none",
          result |-> PredictProba(clf, sample_features.values, clfRaises).probs,
          clf_calls |-> 1]

\* PhishPredictor._score
Score(self, clf, samples, failAt, clfRaises) ==
    ScoreOf(clf, ComputeFeatures(self, samples, FALSE, failAt), clfRaises)

\* Variant: no except clause, the error leaves the callback.
TryScoreNoCatch(r, msg, hs, failAt) ==
    [scores |-> r.result, raised |-> r.raised, errlog |-> <<>>,
     propagated |-> r.raised # "none", clf_calls |-> r.clf_calls]

\* Variant: after a failure of tldextract only the host it raised on is
\* scored 0, the other hosts keep a score of their own.
TryScoreIsolating(r, msg, hs, failAt) ==
    IF r.raised = "none"
    THEN [scores |-> r.result, raised |-> "none", errlog |-> <<>>,
          propagated |-> FALSE, clf_calls |-> r.clf_calls]
    ELSE [scores |-> [i \in 1..Len(hs) |->
                        IF i = failAt \/ r.raised # "extract" THEN 0 ELSE 19],
          raised |-> r.raised,
          errlog |-> <<[error |-> r.raised, message |-> msg]>>,
          propagated |-> FALSE, clf_calls |-> r.clf_calls]

\* Variant: after a failure every host is given the score 0.5.
TryScoreNeutralHalf(r, msg, hs, failAt) ==
    IF r.raised = "none"
    THEN [scores |-> r.result, raised |-> "none", errlog |-> <<>>,
          propagated |-> FALSE, clf_calls |-> r.clf_calls]
    ELSE [scores |-> [i \in 1..Len(hs) |-> 10], raised |-> r.raised,
          errlog |-> <<[error |-> r.raised, message |-> msg]>>,
          propagated |-> FALSE, clf_calls |-> r.clf_calls]

\* The try block of _certstream_mode around _score; r is what _score did.
TryScore(r, msg, hs, failAt) ==
    IF r.raised = "none"
    THEN [scores |-> r.result, raised |-> "none", errlog |-> <<>>,
          propagated |-> FALSE, clf_calls |-> r.clf_calls]
    ELSE [scores |-> [i \in 1..Len(hs) |-> 0], raised |-> r.raised,
          errlog |-> <<[error |-> r.raised, message |-> msg]>>,
          propagated |-> FALSE, clf_calls |-> r.clf_calls]

\* sorted(self._log_tiers, key=threshold, reverse=True): descending and
\* stable, tiers of equal threshold keep the dict's order.
RECURSIVE TierInsert(_, _)
TierInsert(sorted, t) ==
    IF sorted = <<>> THEN <<t>>
    ELSE IF Head(sorted).threshold < t.threshold THEN <<t>> \o sorted
    ELSE <<Head(sorted)>> \o TierInsert(Tail(sorted), t)

RECURSIVE SortTiers(_, _)
SortTiers(tiers, acc) ==
    IF tiers = <<>> THEN acc
    ELSE SortTiers(Tail(tiers), TierInsert(acc, Head(tiers)))

\* Variant: reverse=True left out, the tiers come in ascending order.
SortedTiersAscending(tiers) ==
    LET d == SortTiers(tiers, <<>>)
    IN  [i \in 1..Len(d) |-> d[Len(d) + 1 - i]]

SortedTiers(tiers) == SortTiers(tiers, <<>>)

\* The tier loop for one host: the first tier whose threshold the score
\* exceeds calls _print_result and breaks.
\* Variant: the comparison is >= instead of >.
RECURSIVE TierLoopInclusive(_, _, _, _)
TierLoopInclusive(tiers, entry, host, score) ==
    IF tiers = <<>> THEN <<>>
    ELSE IF score >= Head(tiers).threshold
    THEN <<[level |-> Head(tiers).name, host |-> host, score |-> score,
            entry |-> entry]>>
    ELSE TierLoopInclusive(Tail(tiers), entry, host, score)

\* Variant: the break is missing, every exceeded tier reports the host.
RECURSIVE TierLoopNoBreak(_, _, _, _)
TierLoopNoBreak(tiers, entry, host, score) ==
    IF tiers = <<>> THEN <<>>
    ELSE (IF score > Head(tiers).threshold
          THEN <<[level |-> Head(tiers).name, host |-> host, score |-> score,
                  entry |-> entry]>>
          ELSE <<>>) \o TierLoopNoBreak(Tail(tiers), entry, host, score)

RECURSIVE TierLoop(_, _, _, _)
TierLoop(tiers, entry, host, score) ==
    IF tiers = <<>> THEN <<>>
    ELSE IF score > Head(tiers).threshold
    THEN <<[level |-> Head(tiers).name, host |-> host, score |-> score,
            entry |-> entry]>>
    ELSE TierLoop(Tail(tiers), entry, host, score)

Min(x, y) == IF x < y THEN x ELSE y

\* for host, score in zip(hosts, scores)
RECURSIVE HostLoop(_, _, _, _)
HostLoop(tiers, hs, ss, i) ==
    IF i > Min(Len(hs), Len(ss)) THEN <<>>
    ELSE TierLoop(SortedTiers(tiers), i, hs[i], ss[i]) \o HostLoop(tiers, hs, ss, i + 1)

\* The host loop of _certstream_mode on the outcome t of the try block
ReportScores(tiers, hs, t) ==
    [hosts |-> hs, scores |-> t.scores, raised |-> t.raised,
     errlog |-> t.errlog, propagated |-> t.propagated,
     events |-> IF t.propagated THEN <<>> ELSE HostLoop(tiers, hs, t.scores, 1),
     score_calls |-> 1, clf_calls |-> t.clf_calls]

NoMessage == [message_type |-> "none", all_domains |-> <<>>]

\* _certstream_mode from the try block on, for the de-duplicated hosts hs
ScoreAndReport(self, clf, tiers, msg, hs, failAt, clfRaises) ==
    ReportScores(tiers, hs,
                 TryScore(Score(self, clf, hs, failAt, clfRaises),
                          [msg EXCEPT !.all_domains = hs], hs, failAt))

\* Variant: every message that is not a heartbeat is scored.
CertstreamModeCallAnyType(self, clf, tiers, msg, failAt, clfRaises) ==
    IF msg.message_type # "heartbeat"
    THEN ScoreAndReport(self, clf, tiers, msg,
                        RemoveWildcardDuplicates(msg.all_domains), failAt, clfRaises)
    ELSE [hosts |-> <<>>, scores |-> <<>>, raised |-> "none", errlog |-> <<>>,
          propagated |-> FALSE, events |-> <<>>, score_calls |-> 0, clf_calls |-> 0]

\* What one call of _certstream_mode does, gathered in one record.
CertstreamModeCall(self, clf, tiers, msg, failAt, clfRaises) ==
    IF msg.message_type = "certificate_update"
    THEN ScoreAndReport(self, clf, tiers, msg,
                        RemoveWildcardDuplicates(msg.all_domains), failAt, clfRaises)
    ELSE [hosts |-> <<>>, scores |-> <<>>, raised |-> "none", errlog |-> <<>>,
          propagated |-> FALSE, events |-> <<>>, score_calls |-> 0, clf_calls |-> 0]

(***************************************************************************)
(* Inputs of the model.                                                    *)
(***************************************************************************)
\* Probabilities a classifier returns: 0, 0.5, 0.6, 0.95
Probabilities == {0, 10, 12, 19}

Tier(n, t) == [name |-> n, threshold |-> t]

TierConfigs ==
    { <<Tier("high", 18), Tier("suspicious", 10), Tier("low", 2)>>,
      <<Tier("low", 2), Tier("likely", 10), Tier("suspicious", 10), Tier("high", 18)>>,
      <<Tier("any", 0)>>,
      <<Tier("all", -1)>> }

SeqsUpTo(S, n) == UNION {[1..k -> S] : k \in 0..n}

Messages ==
    {[message_type |-> "heartbeat", all_domains |-> <<>>],
     [message_type |-> "other", all_domains |-> <<>>]}
    \cup {[message_type |-> "certificate_update", all_domains |-> b] :
            b \in SeqsUpTo(Hosts, MaxBatch)}

\* Fitted models: the column is the first one, 'a_brand_domain'.
Classifiers == {[column |-> 1, on |-> p, off |-> q] : p, q \in Probabilities}

NoCall == [made |-> FALSE]

\* Classifier names: the one config.yaml is shipped with, and one more.
DefaultName == "default"

ClassifierNames == {DefaultName, "second"}

(***************************************************************************)
(* The certstream listener.                                                *)
(***************************************************************************)
\* No callback is running: its locals do not exist.
CallbackIdle ==
    /\ message = NoMessage
    /\ hosts = <<>>
    /\ scores = <<>>
    /\ raised = "none"
    /\ fail_at = 0
    /\ errlog = <<>>
    /\ events = <<>>
    /\ score_calls = 0
    /\ clf_calls = 0
    /\ propagated = FALSE

StreamIdle ==
    /\ pc = "listening"
    /\ CallbackIdle

\* No call of the extractor's static helpers has been recorded.
SampleIdle ==
    /\ norm = NoCall
    /\ sample_call = NoCall

\* The menu is not part of this run: nothing trained, nothing selected.
CliIdle ==
    /\ disk = PlainLists
    /\ config = DefaultName
    /\ config_file = DefaultName
    /\ store = <<>>
    /\ cli_call = NoCall

\* No method of PhishDB or PhishTrainer has been called directly.
AuxIdle ==
    /\ db_call = NoCall
    /\ load_call = NoCall

Init ==
    /\ features \in {PlainLists, CollidingLists}
    /\ fe_call = NoCall
    /\ classifier \in Classifiers
    /\ log_tiers \in TierConfigs
    /\ StreamIdle
    /\ SampleIdle
    /\ CliIdle
    /\ AuxIdle

\* certstream delivers a message and the callback _certstream_mode runs on it.
\* failAt and clfRaises say what the two libraries do during this call; they
\* are drawn only where the call reaches the library.
CertstreamModeOn(msgs) ==
    /\ pc = "listening"
    /\ \E msg \in msgs :
       \E failAt \in 0..Len(RemoveWildcardDuplicates(msg.all_domains)) :
       \E clfRaises \in BOOLEAN :
       \E c \in {CertstreamModeCall(features, classifier, log_tiers, msg, failAt,
                                     clfRaises)} :
              /\ (clfRaises => c.clf_calls = 1)
              /\ message' = msg
              /\ hosts' = c.hosts
              /\ scores' = c.scores
              /\ raised' = c.raised
              /\ fail_at' = failAt
              /\ errlog' = c.errlog
              /\ events' = c.events
              /\ score_calls' = c.score_calls
              /\ clf_calls' = c.clf_calls
              /\ propagated' = c.propagated
    /\ pc' = "returned"
    /\ UNCHANGED <<auxVars, features, fe_call, classifier, log_tiers, sampleVars, cliVars>>

CertstreamMode == CertstreamModeOn(Messages)

\* certstream.listen_for_events: the callback has returned, its locals are
\* gone and the listener waits for the next message.
ListenForEvents ==
    /\ pc = "returned"
    /\ ~propagated
    /\ pc' = "listening"
    /\ message' = NoMessage
    /\ hosts' = <<>>
    /\ scores' = <<>>
    /\ raised' = "none"
    /\ fail_at' = 0
    /\ errlog' = <<>>
    /\ events' = <<>>
    /\ score_calls' = 0
    /\ clf_calls' = 0
    /\ propagated' = FALSE
    /\ UNCHANGED <<auxVars, features, fe_call, classifier, log_tiers, sampleVars, cliVars>>

Next == CertstreamMode \/ ListenForEvents

Spec == Init /\ [][Next]_vars

(***************************************************************************)
(* The feature extractor on its own: construction and compute_features.    *)
(***************************************************************************)
InitFeatures ==
    /\ features = NoFeatures
    /\ fe_call = NoCall
    /\ classifier = [column |-> 1, on |-> 19, off |-> 0]
    /\ log_tiers = <<Tier("high", 18), Tier("suspicious", 10), Tier("low", 2)>>
    /\ StreamIdle
    /\ SampleIdle
    /\ CliIdle
    /\ AuxIdle

\* PhishFeatures.__init__: _load_from_directory reads the five directories;
\* whatever they hold becomes the lists of the instance.
PhishFeaturesInit(data_config) == data_config

Construct ==
    /\ \E data_config \in FeatureConfigs : features' = PhishFeaturesInit(data_config)
    /\ fe_call' = NoCall
    /\ UNCHANGED <<auxVars, classifier, log_tiers, pc, message, hosts, scores, raised, fail_at,
                   errlog, events, score_calls, clf_calls, propagated, sampleVars,
                   cliVars>>

\* A call of compute_features on the constructed instance.
ComputeFeaturesCall ==
    /\ features.constructed
    /\ \E fqdns \in SeqsUpTo(Fqdns, MaxFqdns) :
       \E values_only \in BOOLEAN :
       \E failAt \in 0..Len(fqdns) :
          fe_call' = [made |-> TRUE, fqdns |-> fqdns, values_only |-> values_only,
                      failAt |-> failAt,
                      result |-> ComputeFeatures(features, fqdns, values_only, failAt)]
    /\ UNCHANGED <<auxVars, features, classifier, log_tiers, pc, message, hosts, scores, raised,
                   fail_at, errlog, events, score_calls, clf_calls, propagated,
                   sampleVars, cliVars>>

NextFeatures == Construct \/ ComputeFeaturesCall

SpecFeatures == InitFeatures /\ [][NextFeatures]_vars

(***************************************************************************)
(* The static helpers and the extractors on one name: _remove_common_hosts *)
(* on its own, and one pass of the fqdn loop of compute_features.          *)
(***************************************************************************)
MaxLabels == 3      \* most labels in a name given to the helpers

Str_www == <<"w", "w", "w">>
Str_wvw == <<"w", "v", "w">>
Str_ab == <<"a", "b">>
Str_aa == <<"a", "a">>
Str_a_dash_b == <<"a", "-", "b">>
Str_a_underscore_b == <<"a", "_", "b">>
Str_xn_a == <<"x", "n", "-", "-", "a">>
Str_1234 == <<"1", "2", "3", "4">>

\* Labels of the names given to _remove_common_hosts: the seven common
\* hosts, the look-alike 'wvw' of the tests and two more labels.
NormLabels == common_hosts \cup {Str_wvw, <<"a">>, Str_tk}

\* Labels of the names the fqdn loop is run on.
SampleLabels ==
    {<<"*">>, <<"a">>, Str_ab, Str_aa, Str_a_dash_b, Str_a_underscore_b, Str_xn_a,
     Str_1234, Str_tk}

\* The names of up to n labels joined with '.'
NamesOf(labels, n) == {JoinDots(ls) : ls \in UNION {[1..k -> labels] : k \in 1..n}}

NormNames == NamesOf(NormLabels, MaxLabels)

SampleNames == NamesOf(SampleLabels, MaxLabels)

\* A configuration with two similarity words, 'ab' and 'a'.
SimilarityLists ==
    FeatureLists(<<<<"a">>>>, <<<<"b">>>>, <<Str_tk>>, <<Str_ab, <<"a">>>>, <<Str_tk>>)

InitSample ==
    /\ features \in {PlainLists, SimilarityLists}
    /\ fe_call = NoCall
    /\ classifier = [column |-> 1, on |-> 19, off |-> 0]
    /\ log_tiers = <<Tier("high", 18), Tier("suspicious", 10), Tier("low", 2)>>
    /\ StreamIdle
    /\ SampleIdle
    /\ CliIdle
    /\ AuxIdle

\* A call of the static method _remove_common_hosts on a name.
RemoveCommonHostsCall ==
    /\ SampleIdle
    /\ \E fqdn \in NormNames :
          norm' = [made |-> TRUE, fqdn |-> fqdn, result |-> RemoveCommonHosts(fqdn),
                   again |-> FALSE]
    /\ sample_call' = NoCall
    /\ UNCHANGED <<auxVars, features, fe_call, classifier, log_tiers, pc, message, hosts, scores,
                   raised, fail_at, errlog, events, score_calls, clf_calls, propagated,
                   cliVars>>

\* The caller hands the result of the last call to _remove_common_hosts again.
RemoveCommonHostsAgain ==
    /\ norm.made
    /\ ~norm.again
    /\ norm' = [made |-> TRUE, fqdn |-> norm.result,
                result |-> RemoveCommonHosts(norm.result), again |-> TRUE]
    /\ sample_call' = NoCall
    /\ UNCHANGED <<auxVars, features, fe_call, classifier, log_tiers, pc, message, hosts, scores,
                   raised, fail_at, errlog, events, score_calls, clf_calls, propagated,
                   cliVars>>

\* One pass of the fqdn loop of compute_features: the sample dict of the name
\* and the sorted analysis the _fe_ methods give for it.
SampleCall ==
    /\ SampleIdle
    /\ features.constructed
    /\ \E fqdn \in SampleNames :
          sample_call' = [made |-> TRUE, fqdn |-> fqdn, sample |-> MakeSample(fqdn),
                          analysis |-> Analyse(features, fqdn)]
    /\ norm' = NoCall
    /\ UNCHANGED <<auxVars, features, fe_call, classifier, log_tiers, pc, message, hosts, scores,
                   raised, fail_at, errlog, events, score_calls, clf_calls, propagated,
                   cliVars>>

\* The caller is done with what the last call returned.
SampleReturn ==
    /\ ~SampleIdle
    /\ norm' = NoCall
    /\ sample_call' = NoCall
    /\ UNCHANGED <<auxVars, features, fe_call, classifier, log_tiers, pc, message, hosts, scores,
                   raised, fail_at, errlog, events, score_calls, clf_calls, propagated,
                   cliVars>>

NextSample ==
    RemoveCommonHostsCall \/ RemoveCommonHostsAgain \/ SampleCall \/ SampleReturn

SpecSample == InitSample /\ [][NextSample]_vars

(***************************************************************************)
(* database.py: PhishDB.  The collection is the sequence of its documents  *)
(* in insertion order; a document is {_id, <name>: artifacts}, kept here   *)
(* as its name and its artifacts.                                          *)
(***************************************************************************)
MaxStored == 2      \* most documents the collection holds

\* pickle.dumps wrapped in Binary, and pickle.loads
Pickle(obj) == [pickled |-> obj]

\* PhishDB.restore_python_object
RestorePythonObject(blob) == blob.pickled

\* PhishDB.save_classifier: the name is taken out of the artifacts and
\* becomes the key of the inserted document.
SaveClassifier(coll, artifacts) ==
    Append(coll,
           [name |-> artifacts.classifier_name,
            artifacts |-> [k \in DOMAIN artifacts \ {"classifier_name"} |-> artifacts[k]]])

\* insert_one refuses a document whose '_id' is already in the collection:
\* a second classifier named '_id' with the same artifacts.
DuplicateKey(coll, artifacts) ==
    /\ artifacts.classifier_name = "_id"
    /\ \E i \in 1..Len(coll) :
          SaveClassifier(<<>>, artifacts)[1] = coll[i]

\* The keys of a stored document: the '_id' every document of the
\* collection has, and the classifier's name.  A classifier saved under the
\* name '_id' is the document {'_id': artifacts}.
DocKeys(doc) == IF doc.name = "_id" THEN <<"_id">> ELSE <<"_id", doc.name>>

\* PhishDB.delete_classifier: delete_many on the documents holding the key
DeleteClassifier(coll, classifier_name) ==
    SelectSeq(coll, LAMBDA doc : ~InList(classifier_name, DocKeys(doc)))

\* PhishDB.available_classifiers: the keys of every document but '_id'
RECURSIVE AvailableClassifiers(_)
AvailableClassifiers(coll) ==
    IF coll = <<>> THEN <<>>
    ELSE SelectSeq(DocKeys(Head(coll)), LAMBDA key : key # "_id")
         \o AvailableClassifiers(Tail(coll))

\* PhishDB.verify_classifier_existence
VerifyClassifierExistence(coll, c) == InList(c, AvailableClassifiers(coll))

None == [name |-> "None"]

\* Variant: find_one without the filter, the document stored first.
FetchFirstStored(coll, classifier_name) ==
    IF coll = <<>> THEN None ELSE coll[1]

\* PhishDB.fetch_classifier: find_one, the first document holding the key
FetchClassifier(coll, classifier_name) ==
    IF \E i \in 1..Len(coll) : InList(classifier_name, DocKeys(coll[i]))
    THEN coll[CHOOSE i \in 1..Len(coll) :
                 /\ InList(classifier_name, DocKeys(coll[i]))
                 /\ \A j \in 1..(i - 1) : ~InList(classifier_name, DocKeys(coll[j]))]
    ELSE None

(***************************************************************************)
(* configuration.py: PhishConfig.                                          *)
(***************************************************************************)
\* Variant: the name is assigned in memory before the store is asked.
SetActiveClassifierAssignFirst(coll, cfg, file, new_classifier) ==
    IF ~VerifyClassifierExistence(coll, new_classifier)
    THEN [raised |-> "ValueError", config |-> new_classifier, config_file |-> file,
          db_ops |-> <<"available_classifiers">>]
    ELSE [raised |-> "none", config |-> new_classifier, config_file |-> new_classifier,
          db_ops |-> <<"available_classifiers">>]

\* The active_classifier setter: the store is asked first, then the name is
\* set in memory and the configuration is saved to config.yaml.
SetActiveClassifier(coll, cfg, file, new_classifier) ==
    IF ~VerifyClassifierExistence(coll, new_classifier)
    THEN [raised |-> "ValueError", config |-> cfg, config_file |-> file,
          db_ops |-> <<"available_classifiers">>]
    ELSE [raised |-> "none", config |-> new_classifier, config_file |-> new_classifier,
          db_ops |-> <<"available_classifiers">>]

\* PhishConfig.verify_active_classifier_exists
VerifyActiveClassifierExists(coll, active) == VerifyClassifierExistence(coll, active)

(***************************************************************************)
(* trainer.py: PhishTrainer.                                               *)
(***************************************************************************)
\* The domains _load_training_data returns.
TrainingData == <<HostA, HostB>>

\* _train_model: the fitted model; it keeps the number of columns it was
\* fitted on.
TrainModel(training_features) ==
    [column |-> 1, on |-> 19, off |-> 0, n_features |-> Len(training_features.names)]

\* _compute_metrics: the part of the metrics taken from the feature vector
ComputeMetrics(training_features) ==
    [feature_vector_size |-> Len(training_features.names)]

\* _generate_artifacts
GenerateArtifacts(metrics, clf, feats) ==
    [metrics |-> metrics, classifier |-> Pickle(clf), feature_extractor |-> Pickle(feats)]

\* generate_model once the training features are computed
GenerateModelFrom(feats, training_features) ==
    GenerateArtifacts(ComputeMetrics(training_features), TrainModel(training_features),
                      feats)

GenerateModelWith(feats) ==
    GenerateModelFrom(feats, ComputeFeatures(feats, TrainingData, FALSE, 0))

\* PhishTrainer().generate_model(): the extractor is built from the list
\* directories as they are when the trainer is constructed.
GenerateModel(data_config) == GenerateModelWith(PhishFeaturesInit(data_config))

(***************************************************************************)
(* predictor.py: PhishPredictor.__init__.                                  *)
(***************************************************************************)
ActiveClassifierNotFound ==
    "[-] Active classifier not found - please train one, or update config with name of a trained classifier."

NoClassifier == [fitted |-> FALSE]

\* __init__ from the fetched artifacts on
PredictorLoaded(doc) ==
    [raised |-> "none", message |-> "",
     db_ops |-> <<"available_classifiers", "fetch_classifier">>,
     features |-> RestorePythonObject(doc.artifacts.feature_extractor),
     classifier |-> RestorePythonObject(doc.artifacts.classifier)]

\* Variant: the artifacts are fetched before the active classifier is verified.
PhishPredictorInitFetchFirst(active, coll) ==
    IF ~VerifyActiveClassifierExists(coll, active)
    THEN [raised |-> "IOError", message |-> ActiveClassifierNotFound,
          db_ops |-> <<"fetch_classifier", "available_classifiers">>,
          features |-> NoFeatures, classifier |-> NoClassifier]
    ELSE PredictorLoaded(FetchClassifier(coll, active))

\* PhishPredictor(): active is the name PhishConfig() reads from config.yaml
PhishPredictorInit(active, coll) ==
    IF ~VerifyActiveClassifierExists(coll, active)
    THEN [raised |-> "IOError", message |-> ActiveClassifierNotFound,
          db_ops |-> <<"available_classifiers">>,
          features |-> NoFeatures, classifier |-> NoClassifier]
    ELSE PredictorLoaded(FetchClassifier(coll, active))

(***************************************************************************)
(* cli.py: PhishCLI.  pc says where the program is: at the main menu, at   *)
(* the classifiers menu or one of its prompts, in manual mode, or inside   *)
(* the certstream listener.                                                *)
(***************************************************************************)
VALID_ANSWERS == {"y", "yes", "yea", "sure", "alright", "fine", "n", "no", "nope", "nawww"}

YES_ANSWERS == {"y", "yes", "yea", "sure", "alright", "fine"}

\* What the user types at the overwrite question; it is not lower-cased and
\* the empty answer is the default the prompt offers.
OverwriteAnswers == {"y", "n", ""}

\* str.lower() on the characters of the model
UpperCase == <<"A", "E", "I", "K", "Q", "T", "U", "X">>

LowerCase == <<"a", "e", "i", "k", "q", "t", "u", "x">>

LowerChar(c) ==
    IF \E i \in 1..Len(UpperCase) : UpperCase[i] = c
    THEN LowerCase[CHOOSE i \in 1..Len(UpperCase) : UpperCase[i] = c]
    ELSE c

Lower(s) == [i \in 1..Len(s) |-> LowerChar(s[i])]

Str_exit == <<"e", "x", "i", "t">>
Str_quit == <<"q", "u", "i", "t">>

\* What the user types at the manual-mode prompt.
ManualInputs ==
    {HostA, HostB, <<"A", ".", "T", "K">>, Str_exit, Str_quit,
     <<"E", "X", "I", "T">>, <<"Q", "u", "i", "t">>}

\* The last manual-mode prompt: what was typed and what the handler did.
ManualCall(handler, typed, error, out, score) ==
    [made |-> TRUE, handler |-> handler, mode |-> "manual", raised |-> error,
     out |-> out, db_ops |-> <<>>, score |-> score, typed |-> typed]

\* Messages the feed delivers while the menu's deployment is observed.
CliMessages ==
    {[message_type |-> "heartbeat", all_domains |-> <<>>],
     [message_type |-> "certificate_update", all_domains |-> <<HostA>>],
     [message_type |-> "certificate_update", all_domains |-> <<Wild(HostB), HostB>>]}

callbackVars ==
    <<message, hosts, scores, raised, fail_at, errlog, events, score_calls, clf_calls,
      propagated>>

CliCall(handler, mode, error, out, db_ops, score) ==
    [made |-> TRUE, handler |-> handler, mode |-> mode, raised |-> error, out |-> out,
     db_ops |-> db_ops, score |-> score]

\* The for loop of _train_classifier over the names available_classifiers()
\* returned: each entry equal to the chosen name asks the overwrite question
\* (answers[k] is the k-th answer); an answer in VALID_ANSWERS deletes the
\* stored classifier, any other answer goes on with the next entry.
RECURSIVE OverwriteLoop(_, _, _, _, _, _, _)
OverwriteLoop(available, i, classifier_name, answers, k, coll, ops) ==
    IF i > Len(available) THEN [store |-> coll, db_ops |-> ops]
    ELSE IF available[i] # classifier_name
    THEN OverwriteLoop(available, i + 1, classifier_name, answers, k, coll, ops)
    ELSE IF answers[k] \in VALID_ANSWERS
    THEN OverwriteLoop(available, i + 1, classifier_name, answers, k + 1,
                       DeleteClassifier(coll, classifier_name),
                       Append(ops, "delete_classifier"))
    ELSE OverwriteLoop(available, i + 1, classifier_name, answers, k + 1, coll, ops)

\* After the for loop: the artifacts are saved under the name.
SaveTrained(loop, artifacts, classifier_name) ==
    [store |-> SaveClassifier(loop.store,
                              artifacts @@ ("classifier_name" :> classifier_name)),
     db_ops |-> Append(loop.db_ops, "save_classifier")]

\* The outcome of the activation through the active_classifier setter
Activated(saved, set) ==
    [store |-> saved.store, config |-> set.config, config_file |-> set.config_file,
     out |-> IF set.raised = "ValueError"
             THEN <<"[-] An error occurred during activation: Classifier not found in database.">>
             ELSE <<"[+] Activated new classifier in configuration.">>,
     db_ops |-> saved.db_ops \o set.db_ops]

\* The activation question of _train_classifier
ActivateTrained(saved, cfg, file, classifier_name, activate) ==
    IF activate \in YES_ANSWERS
    THEN Activated(saved, SetActiveClassifier(saved.store, cfg, file, classifier_name))
    ELSE [store |-> saved.store, config |-> cfg, config_file |-> file,
          out |-> <<"[+] Not activating - returning to main menu.">>,
          db_ops |-> saved.db_ops]

\* PhishCLI._train_classifier with the answers the user gives
TrainClassifierCall(data_config, coll, cfg, file, keep, classifier_name, answers, activate) ==
    IF keep \notin YES_ANSWERS
    THEN [store |-> coll, config |-> cfg, config_file |-> file,
          out |-> <<"[+] Not saving - returning to main menu.">>, db_ops |-> <<>>]
    ELSE ActivateTrained(
            SaveTrained(OverwriteLoop(AvailableClassifiers(coll), 1, classifier_name,
                                      answers, 1, coll, <<"available_classifiers">>),
                        GenerateModel(data_config), classifier_name),
            cfg, file, classifier_name, activate)

\* The start of every round of _manage_classifiers: without a trained
\* classifier it returns to the main menu.
ClassifiersMenuOr(coll) == IF coll = <<>> THEN "menu" ELSE "classifiers_menu"

InitCli ==
    /\ features = NoFeatures
    /\ fe_call = NoCall
    /\ classifier = NoClassifier
    /\ log_tiers = <<Tier("high", 18), Tier("suspicious", 10), Tier("low", 2)>>
    /\ pc = "menu"
    /\ CallbackIdle
    /\ SampleIdle
    /\ CliIdle
    /\ AuxIdle

\* Main menu, selections 1 and 2: PhishPredictor()(mode); an IOError is
\* printed and the menu is shown again.
Deploy ==
    /\ pc = "menu"
    /\ \E mode \in {"certstream", "manual"} :
       \E p \in {PhishPredictorInit(config_file, store)} :
          /\ cli_call' = CliCall("deploy", mode, p.raised,
                                 IF p.raised = "IOError" THEN <<p.message>> ELSE <<>>,
                                 p.db_ops, -1)
          /\ features' = p.features
          /\ classifier' = p.classifier
          /\ pc' = IF p.raised # "none" THEN "menu"
                   ELSE IF mode = "certstream" THEN "listening" ELSE "manual"
    /\ UNCHANGED <<auxVars, fe_call, log_tiers, callbackVars, sampleVars, disk, config,
                   config_file, store>>

\* _manual_mode: the lower-cased input is not 'quit' or 'exit' and is scored
\* as a list of one.  Nothing in _manual_mode catches what _score raises: the
\* CLI prints it when it is an IOError and ends otherwise.
ManualScore ==
    /\ pc = "manual"
    /\ \E typed \in ManualInputs :
       \E evaluate \in {Lower(typed)} \ {Str_quit, Str_exit} :
       \E failAt \in 0..1 :
       \E clfRaises \in BOOLEAN :
       \E isIOError \in BOOLEAN :
       \E r \in {Score(features, classifier, <<evaluate>>, failAt, clfRaises)} :
          /\ clfRaises => r.clf_calls = 1
          /\ isIOError => r.raised # "none"
          /\ fe_call' = [made |-> TRUE, fqdns |-> <<evaluate>>, values_only |-> FALSE,
                         failAt |-> failAt,
                         result |-> ComputeFeatures(features, <<evaluate>>, FALSE, failAt)]
          /\ cli_call' =
                IF r.raised = "none"
                THEN ManualCall("manual_score", typed, "none",
                                <<IF r.result[1] >= 10 THEN "[PHISHING]"
                                  ELSE "[NOT PHISHING]">>,
                                r.result[1])
                ELSE ManualCall("manual_score", typed,
                                IF isIOError THEN "IOError" ELSE r.raised,
                                IF isIOError THEN <<r.raised>> ELSE <<>>, -1)
          /\ pc' = IF r.raised = "none" THEN "manual"
                   ELSE IF isIOError THEN "menu" ELSE "crashed"
          /\ features' = IF r.raised = "none" THEN features ELSE NoFeatures
          /\ classifier' = IF r.raised = "none" THEN classifier ELSE NoClassifier
    /\ UNCHANGED <<auxVars, log_tiers, callbackVars, sampleVars, disk, config,
                   config_file, store>>

\* _manual_mode: the lower-cased input is 'quit' or 'exit'; the return to
\* the main menu is announced and the loop is left.
ManualQuit ==
    /\ pc = "manual"
    /\ \E typed \in ManualInputs :
          /\ Lower(typed) \in {Str_quit, Str_exit}
          /\ cli_call' = ManualCall("manual_quit", typed, "none",
                                    <<"[+] Returning to main menu.">>, -1)
    /\ pc' = "menu"
    /\ features' = NoFeatures
    /\ classifier' = NoClassifier
    /\ UNCHANGED <<auxVars, fe_call, log_tiers, callbackVars, sampleVars, disk, config,
                   config_file, store>>

\* The deployed predictor's callback on a message of the feed.
CertstreamModeDeployed == CertstreamModeOn(CliMessages)

\* Main menu, selection 4: _train_classifier.
TrainClassifier ==
    /\ pc = "menu"
    /\ \E keep \in {"y", "n"} :
       \E classifier_name \in ClassifierNames :
       \E answers \in [1..Cardinality({i \in 1..Len(store) :
                                            store[i].name = classifier_name})
                          -> OverwriteAnswers] :
       \E activate \in {"y", "n"} :
       \E t \in {TrainClassifierCall(disk, store, config, config_file, keep,
                                     classifier_name, answers, activate)} :
          /\ Len(t.store) <= MaxStored
          /\ keep = "n" =>
                /\ classifier_name = DefaultName
                /\ activate = "n"
                /\ \A k \in DOMAIN answers : answers[k] = ""
          /\ store' = t.store
          /\ config' = t.config
          /\ config_file' = t.config_file
          /\ cli_call' = CliCall("train", classifier_name, "none", t.out, t.db_ops, -1)
    /\ UNCHANGED <<auxVars, features, fe_call, classifier, log_tiers, pc, callbackVars,
                   sampleVars, disk>>

\* Main menu, selection 3: _manage_classifiers lists the classifiers and
\* shows its menu, or returns when none is trained.
ManageClassifiers ==
    /\ pc = "menu"
    /\ pc' = ClassifiersMenuOr(store)
    /\ cli_call' = CliCall("manage", "", "none",
                           IF store = <<>>
                           THEN <<"[-] There are no classifiers currently trained - please train one.">>
                           ELSE <<>>,
                           <<"available_classifiers">>, -1)
    /\ UNCHANGED <<auxVars, features, fe_call, classifier, log_tiers, callbackVars, sampleVars,
                   disk, config, config_file, store>>

\* Classifiers menu, selection 3: _change_classifier returns at once when
\* one classifier only is trained, and asks for a name otherwise.
SelectChange ==
    /\ pc = "classifiers_menu"
    /\ pc' = IF Len(AvailableClassifiers(store)) <= 1 THEN "classifiers_menu"
             ELSE "change_prompt"
    /\ cli_call' = CliCall("select_change", "", "none", <<>>, <<>>, -1)
    /\ UNCHANGED <<auxVars, features, fe_call, classifier, log_tiers, callbackVars, sampleVars,
                   disk, config, config_file, store>>

\* The prompt of _change_classifier: the setter raises ValueError for a name
\* that is not stored and the prompt is shown again.
ChangePrompt ==
    /\ pc = "change_prompt"
    /\ \E classifier_name \in ClassifierNames \cup {"typo"} :
       \E set \in {SetActiveClassifier(store, config, config_file, classifier_name)} :
          /\ config' = set.config
          /\ config_file' = set.config_file
          /\ pc' = IF set.raised = "ValueError" THEN "change_prompt"
                   ELSE ClassifiersMenuOr(store)
          /\ cli_call' = CliCall("change", classifier_name, set.raised,
                                 IF set.raised = "ValueError"
                                 THEN <<"[-] An error occurred during activation: Classifier not found in database.">>
                                 ELSE <<"[+] Activated new classifier in configuration.">>,
                                 set.db_ops, -1)
    /\ UNCHANGED <<auxVars, features, fe_call, classifier, log_tiers, callbackVars, sampleVars,
                   disk, store>>

\* Classifiers menu, selection 4: _delete_classifier asks for a name.
SelectDelete ==
    /\ pc = "classifiers_menu"
    /\ pc' = "delete_prompt"
    /\ cli_call' = CliCall("select_delete", "", "none", <<>>, <<>>, -1)
    /\ UNCHANGED <<auxVars, features, fe_call, classifier, log_tiers, callbackVars, sampleVars,
                   disk, config, config_file, store>>

\* The prompt of _delete_classifier: a name that is not stored is asked for
\* again, a stored one is deleted.
DeletePrompt ==
    /\ pc = "delete_prompt"
    /\ \E classifier_name \in ClassifierNames \cup {"typo"} :
          IF ~InList(classifier_name, AvailableClassifiers(store))
          THEN /\ store' = store
               /\ pc' = "delete_prompt"
               /\ cli_call' = CliCall("delete", classifier_name, "none",
                                      <<"[-] Sorry, classifier not found in the database. Please try again.">>,
                                      <<"available_classifiers">>, -1)
          ELSE /\ store' = DeleteClassifier(store, classifier_name)
               /\ pc' = ClassifiersMenuOr(store')
               /\ cli_call' = CliCall("delete", classifier_name, "none", <<>>,
                                      <<"available_classifiers", "delete_classifier">>,
                                      -1)
    /\ UNCHANGED <<auxVars, features, fe_call, classifier, log_tiers, callbackVars, sampleVars,
                   disk, config, config_file>>

\* Classifiers menu, selections 1 and 2: the metrics of the stored
\* classifiers are fetched and printed.
ShowMetrics ==
    /\ pc = "classifiers_menu"
    /\ \E selection \in {"metrics_summary", "single_classifier_metrics"} :
          cli_call' = CliCall(selection, "", "none", <<>>,
                              IF selection = "metrics_summary"
                              THEN [i \in 1..Len(store) |-> "fetch_classifier"]
                              ELSE <<"available_classifiers", "fetch_classifier">>,
                              -1)
    /\ UNCHANGED <<auxVars, features, fe_call, classifier, log_tiers, pc, callbackVars,
                   sampleVars, disk, config, config_file, store>>

\* Classifiers menu, selection 5.
ReturnToMainMenu ==
    /\ pc = "classifiers_menu"
    /\ pc' = "menu"
    /\ cli_call' = CliCall("return", "", "none", <<"[+] Returning to main menu.">>,
                           <<>>, -1)
    /\ UNCHANGED <<auxVars, features, fe_call, classifier, log_tiers, callbackVars, sampleVars,
                   disk, config, config_file, store>>

\* Main menu, selection 5: print_config.
PrintConfig ==
    /\ pc = "menu"
    /\ cli_call' = CliCall("print_config", "", "none", <<config>>, <<>>, -1)
    /\ UNCHANGED <<auxVars, features, fe_call, classifier, log_tiers, pc, callbackVars,
                   sampleVars, disk, config, config_file, store>>

\* Main menu, selection 6: sys.exit(0).
Exit ==
    /\ pc = "menu"
    /\ pc' = "exited"
    /\ cli_call' = CliCall("exit", "", "none", <<"[+] Exiting...">>, <<>>, -1)
    /\ UNCHANGED <<auxVars, features, fe_call, classifier, log_tiers, callbackVars, sampleVars,
                   disk, config, config_file, store>>

\* What the list directories hold before and after an edit.
DiskConfigs == {PlainLists, TwiceListed}

\* Somebody edits the files of the list directories.
EditLists ==
    /\ pc \notin {"exited", "crashed"}
    /\ \E data_config \in DiskConfigs \ {disk} : disk' = data_config
    /\ UNCHANGED <<auxVars, features, fe_call, classifier, log_tiers, pc, callbackVars,
                   sampleVars, config, config_file, store, cli_call>>

\* What the callback has done when KeyboardInterrupt is raised in it after
\* the tier evaluation of k hosts: c is what the whole call would have done.
\* The except clause of the try block names Exception, which
\* KeyboardInterrupt is not.
InterruptedReporting(c, tiers, k) ==
    [c EXCEPT !.events = HostLoop(tiers, SubSeq(c.hosts, 1, k), c.scores, 1),
              !.propagated = TRUE]

\* The same when it is raised while _score runs: scores is never assigned.
InterruptedScoring(hs) ==
    [hosts |-> hs, scores |-> <<>>, raised |-> "none", errlog |-> <<>>,
     propagated |-> TRUE, events |-> <<>>, score_calls |-> 1, clf_calls |-> 0]

\* predict_proba does not return: the callback stays inside _score.
ScoreStalls ==
    /\ pc = "listening"
    /\ \E msg \in CliMessages :
          /\ msg.message_type = "certificate_update"
          /\ message' = msg
          /\ hosts' = RemoveWildcardDuplicates(msg.all_domains)
    /\ pc' = "stalled"
    /\ score_calls' = 1
    /\ clf_calls' = 1
    /\ UNCHANGED <<auxVars, features, fe_call, classifier, log_tiers, scores, raised,
                   fail_at, errlog, events, propagated, sampleVars, cliVars>>

\* CTRL+C during certstream mode: Python raises KeyboardInterrupt in the main
\* thread wherever it is; nothing in predictor.py handles or defers it.
\* Here it is raised while the listener waits for a message.
InterruptListening ==
    /\ pc = "listening"
    /\ propagated' = TRUE
    /\ UNCHANGED <<message, hosts, scores, raised, fail_at, errlog, events,
                   score_calls, clf_calls>>
    /\ pc' = "interrupted"
    /\ UNCHANGED <<auxVars, features, fe_call, classifier, log_tiers, sampleVars, cliVars>>

\* CTRL+C while the callback is stalled inside _score.
InterruptStalled ==
    /\ pc = "stalled"
    /\ propagated' = TRUE
    /\ UNCHANGED <<message, hosts, scores, raised, fail_at, errlog, events,
                   score_calls, clf_calls>>
    /\ pc' = "interrupted"
    /\ UNCHANGED <<auxVars, features, fe_call, classifier, log_tiers, sampleVars, cliVars>>

\* CTRL+C while the callback runs on a certificate_update: inside _score, or
\* in the host loop after k hosts.
InterruptCallback ==
    /\ pc = "listening"
    /\ \E msg \in CliMessages :
       \E c \in {CertstreamModeCall(features, classifier, log_tiers, msg, 0, FALSE)} :
       \E i \in {InterruptedScoring(c.hosts)}
                \cup {InterruptedReporting(c, log_tiers, k) : k \in 0..(Len(c.hosts) - 1)} :
          /\ msg.message_type = "certificate_update"
          /\ message' = msg
          /\ hosts' = i.hosts
          /\ scores' = i.scores
          /\ raised' = i.raised
          /\ fail_at' = 0
          /\ errlog' = i.errlog
          /\ events' = i.events
          /\ score_calls' = i.score_calls
          /\ clf_calls' = i.clf_calls
          /\ propagated' = i.propagated
    /\ pc' = "interrupted"
    /\ UNCHANGED <<auxVars, features, fe_call, classifier, log_tiers, sampleVars, cliVars>>

\* The interrupt leaves certstream.listen_for_events: the library returns to
\* _run, which shows the menu again, or lets it through, and _run, which
\* catches IOError only, ends.
ListenForEventsEnds ==
    /\ pc = "interrupted"
    /\ pc' \in {"menu", "crashed"}
    /\ features' = NoFeatures
    /\ classifier' = NoClassifier
    /\ message' = NoMessage
    /\ hosts' = <<>>
    /\ scores' = <<>>
    /\ raised' = "none"
    /\ fail_at' = 0
    /\ errlog' = <<>>
    /\ events' = <<>>
    /\ score_calls' = 0
    /\ clf_calls' = 0
    /\ propagated' = FALSE
    /\ cli_call' = CliCall("interrupt", "certstream", "KeyboardInterrupt", <<>>, <<>>, -1)
    /\ UNCHANGED <<auxVars, fe_call, log_tiers, sampleVars, disk, config, config_file,
                   store>>

NextCli ==
    \/ Deploy
    \/ ManualScore
    \/ ManualQuit
    \/ CertstreamModeDeployed
    \/ ListenForEvents
    \/ ScoreStalls
    \/ InterruptListening
    \/ InterruptStalled
    \/ InterruptCallback
    \/ ListenForEventsEnds
    \/ TrainClassifier
    \/ ManageClassifiers
    \/ SelectChange
    \/ ChangePrompt
    \/ SelectDelete
    \/ DeletePrompt
    \/ ShowMetrics
    \/ ReturnToMainMenu
    \/ PrintConfig
    \/ Exit
    \/ EditLists

SpecCli == InitCli /\ [][NextCli]_vars

(***************************************************************************)
(* PhishDB called directly: save_classifier and delete_classifier on the   *)
(* collection, in any order.  db_call.live is the history the results are  *)
(* compared with: the names saved and not deleted since, in order.         *)
(***************************************************************************)
\* Names given to save_classifier and delete_classifier.
DbNames == ClassifierNames \cup {"_id"}

\* Artifacts as test_db.py builds them.
DbArtifacts ==
    {[classifier_name |-> n, key_one |-> v] : n \in DbNames, v \in {"value_one", "value_two"}}

Live == IF db_call.made THEN db_call.live ELSE <<>>

InitDb ==
    /\ features = NoFeatures
    /\ fe_call = NoCall
    /\ classifier = NoClassifier
    /\ log_tiers = <<Tier("high", 18), Tier("suspicious", 10), Tier("low", 2)>>
    /\ pc = "db"
    /\ CallbackIdle
    /\ SampleIdle
    /\ CliIdle
    /\ AuxIdle

\* db.save_classifier(artifacts)
SaveClassifierCall ==
    /\ pc = "db"
    /\ Len(store) < MaxStored
    /\ Len(Live) < MaxStored
    /\ \E artifacts \in DbArtifacts :
          IF DuplicateKey(store, artifacts)
          THEN /\ store' = store
               /\ db_call' = [made |-> TRUE, method |-> "save_classifier",
                              name |-> artifacts.classifier_name,
                              raised |-> "DuplicateKeyError", live |-> Live]
          ELSE /\ store' = SaveClassifier(store, artifacts)
               /\ db_call' = [made |-> TRUE, method |-> "save_classifier",
                              name |-> artifacts.classifier_name,
                              raised |-> "none",
                              live |-> Append(Live, artifacts.classifier_name)]
    /\ UNCHANGED <<features, fe_call, classifier, log_tiers, pc, callbackVars,
                   sampleVars, disk, config, config_file, cli_call, load_call>>

\* db.delete_classifier(classifier_name)
DeleteClassifierCall ==
    /\ pc = "db"
    /\ \E classifier_name \in DbNames :
          /\ store' = DeleteClassifier(store, classifier_name)
          /\ db_call' = [made |-> TRUE, method |-> "delete_classifier",
                         name |-> classifier_name, raised |-> "none",
                         live |-> SelectSeq(Live, LAMBDA n : n # classifier_name)]
    /\ UNCHANGED <<features, fe_call, classifier, log_tiers, pc, callbackVars,
                   sampleVars, disk, config, config_file, cli_call, load_call>>

NextDb == SaveClassifierCall \/ DeleteClassifierCall

SpecDb == InitDb /\ [][NextDb]_vars

(***************************************************************************)
(* PhishTrainer._load_training_data called on the lines of the files of    *)
(* the benign and the malicious directory.                                 *)
(***************************************************************************)
MaxLines == 2      \* most lines read from one of the two directories

Newline == "\n"

\* item.strip('\n'): the newlines at both ends are taken off
RECURSIVE StripNewlines(_)
StripNewlines(item) ==
    IF item = <<>> THEN <<>>
    ELSE IF Head(item) = Newline THEN StripNewlines(Tail(item))
    ELSE IF item[Len(item)] = Newline THEN StripNewlines(SubSeq(item, 1, Len(item) - 1))
    ELSE item

\* The loop over infile.readlines(): the membership test is made on the
\* item as read, the key that is set is the stripped item.
RECURSIVE ReadLinesLoop(_, _, _)
ReadLinesLoop(items, label, training_data) ==
    IF items = <<>> THEN training_data
    ELSE ReadLinesLoop(Tail(items), label,
                       IF ~DictHas(training_data, Head(items))
                       THEN DictSet(training_data, StripNewlines(Head(items)), label)
                       ELSE training_data)

\* _load_training_data: the benign files first, then the malicious ones
LoadTrainingData(benign, malicious) ==
    ReadLinesLoop(malicious, 1, ReadLinesLoop(benign, 0, <<>>))

\* Lines readlines() returns: a domain with its newline, or without it when
\* it is the last line of a file that does not end in a newline.
Lines == {h \o <<Newline>> : h \in {HostA, HostB}} \cup {HostA, HostB}

InitLoad ==
    /\ features = NoFeatures
    /\ fe_call = NoCall
    /\ classifier = NoClassifier
    /\ log_tiers = <<Tier("high", 18), Tier("suspicious", 10), Tier("low", 2)>>
    /\ pc = "trainer"
    /\ CallbackIdle
    /\ SampleIdle
    /\ CliIdle
    /\ AuxIdle

\* trainer._load_training_data() with the two directories holding these lines
LoadTrainingDataCall ==
    /\ pc = "trainer"
    /\ load_call = NoCall
    /\ \E benign \in SeqsUpTo(Lines, MaxLines) :
       \E malicious \in SeqsUpTo(Lines, MaxLines) :
          load_call' = [made |-> TRUE, benign |-> benign, malicious |-> malicious,
                        training_data |-> LoadTrainingData(benign, malicious)]
    /\ UNCHANGED <<features, fe_call, classifier, log_tiers, pc, callbackVars,
                   sampleVars, cliVars, db_call>>

\* The caller is done with the training data.
LoadReturn ==
    /\ pc = "trainer"
    /\ load_call.made
    /\ load_call' = NoCall
    /\ UNCHANGED <<features, fe_call, classifier, log_tiers, pc, callbackVars,
                   sampleVars, cliVars, db_call>>

NextLoad == LoadTrainingDataCall \/ LoadReturn

SpecLoad == InitLoad /\ [][NextLoad]_vars

(***************************************************************************)
(* Properties of the certstream callback (checked under Spec).             *)
(***************************************************************************)
Returned == pc = "returned"

Update == message.message_type = "certificate_update"

ExampleTiers == <<Tier("high", 18), Tier("suspicious", 10), Tier("low", 2)>>

Occurrences(lst, x) == Cardinality({i \in 1..Len(lst) : lst[i] = x})

RECURSIVE IsSubsequence(_, _)
IsSubsequence(a, b) ==
    IF a = <<>> THEN TRUE
    ELSE IF b = <<>> THEN FALSE
    ELSE IF Head(a) = Head(b) THEN IsSubsequence(Tail(a), Tail(b))
    ELSE IsSubsequence(a, Tail(b))

\* the _print_result calls made for the i-th host of the batch
EventsOf(i) == {k \in 1..Len(events) : events[k].entry = i}

LevelsOf(i) == {events[k].level : k \in EventsOf(i)}

ThresholdOf(level) ==
    log_tiers[CHOOSE j \in 1..Len(log_tiers) : log_tiers[j].name = level].threshold

Qualifies(score) == \E j \in 1..Len(log_tiers) : log_tiers[j].threshold < score

\* what the fitted model answers for one host on its own
ClassifierScore(h) ==
    PredictProba(classifier, <<DictValues(AnalysisOf[features][h])>>, FALSE).probs[1]

\* C1: after the wildcard loop no host h is left in the batch together with
\* '*.' + h.
C1_NoLiteralDuplicateLeft ==
    (Returned /\ Update) =>
        \A i \in 1..Len(hosts) : ~InList(Wild(hosts[i]), hosts)

\* C2: the wildcard loop only deletes entries, each deleted entry is the
\* suffix after '*.' of a wildcard host of the delivered batch, the entries
\* left keep their order, and ['*.a.tk', 'a.tk', 'b.tk'] becomes
\* ['*.a.tk', 'b.tk'].
C2_OnlyLiteralDuplicatesDropped ==
    (Returned /\ Update) =>
        /\ IsSubsequence(hosts, message.all_domains)
        /\ \A i \in 1..Len(message.all_domains) :
              LET x == message.all_domains[i]
              IN  Occurrences(hosts, x) < Occurrences(message.all_domains, x)
                      => InList(Wild(x), message.all_domains)
        /\ (message.all_domains = <<Wild(HostA), HostA, HostB>>
                => hosts = <<Wild(HostA), HostB>>)

C2_Witness ==
    /\ Returned
    /\ message.all_domains = <<Wild(HostA), HostA, HostB>>
    /\ hosts = <<Wild(HostA), HostB>>

\* C3: a host is reported only under a tier whose threshold is strictly below
\* its score, that tier has the highest threshold among the tiers strictly
\* below the score, and a host with some tier strictly below its score is
\* reported.
C3_HighestTierStrictlyBelow ==
    Returned =>
        /\ \A k \in 1..Len(events) :
              /\ ThresholdOf(events[k].level) < events[k].score
              /\ \A j \in 1..Len(log_tiers) :
                    log_tiers[j].threshold < events[k].score
                        => log_tiers[j].threshold <= ThresholdOf(events[k].level)
        /\ \A i \in 1..Len(hosts) : Qualifies(scores[i]) => EventsOf(i) # {}

C3_Witness ==
    /\ Returned
    /\ log_tiers = ExampleTiers
    /\ \E k1, k2 \in 1..Len(events) :
          /\ events[k1].score = 12 /\ events[k1].level = "suspicious"
          /\ events[k2].score = 10 /\ events[k2].level = "low"

\* C4 as stated: with tiers {high: 0.9, suspicious: 0.5, low: 0.1} a score of
\* 0.95 is reported as 'high' and a score of exactly 0.5 is not reported.
C4_BoundaryGetsNoTier ==
    (Returned /\ log_tiers = ExampleTiers) =>
        \A i \in 1..Len(hosts) :
            /\ scores[i] = 19 => LevelsOf(i) = {"high"}
            /\ scores[i] = 10 => EventsOf(i) = {}

\* C4 amended: with tiers {high: 0.9, suspicious: 0.5, low: 0.1} a score of
\* 0.95 is reported as 'high' and a score of exactly 0.5 is reported once, as
\* 'low' (not as 'suspicious').
C4_BoundaryFallsToLow ==
    (Returned /\ log_tiers = ExampleTiers) =>
        \A i \in 1..Len(hosts) :
            /\ scores[i] = 19 => LevelsOf(i) = {"high"}
            /\ scores[i] = 10 => LevelsOf(i) = {"low"} /\ Cardinality(EventsOf(i)) = 1

C4_Witness ==
    /\ Returned
    /\ log_tiers = ExampleTiers
    /\ \E i, j \in 1..Len(hosts) :
          /\ scores[i] = 19 /\ LevelsOf(i) = {"high"}
          /\ scores[j] = 10 /\ LevelsOf(j) = {"low"}

\* C5: every entry of the de-duplicated batch has a score; it makes exactly
\* one _print_result call, with its own host and score and a configured
\* tier, when some threshold is strictly below its score, and none
\* otherwise; a batch scored without failure logs no error.
C5_OneEventPerQualifyingHost ==
    (Returned /\ Update) =>
        /\ Len(scores) = Len(hosts)
        /\ \A i \in 1..Len(hosts) :
              Cardinality(EventsOf(i)) = IF Qualifies(scores[i]) THEN 1 ELSE 0
        /\ \A k \in 1..Len(events) :
              /\ events[k].entry \in 1..Len(hosts)
              /\ events[k].host = hosts[events[k].entry]
              /\ events[k].score = scores[events[k].entry]
              /\ \E j \in 1..Len(log_tiers) : log_tiers[j].name = events[k].level
        /\ (raised = "none" => errlog = <<>>)
        /\ ~propagated

C5_Witness ==
    /\ Returned
    /\ raised = "none"
    /\ Len(log_tiers) > 1
    /\ \E i, j \in 1..Len(hosts) :
          /\ Cardinality(EventsOf(i)) = 1
          /\ EventsOf(j) = {} /\ ~Qualifies(scores[j])

\* C6: when _score raises, the callback lets nothing escape, logs one error
\* carrying the error and the batch message, scores every host of the
\* de-duplicated batch 0 and returns, so that the listener goes on.
C6_FailedBatchIsNeutralised ==
    /\ Returned => ~propagated
    /\ (Returned /\ raised # "none") =>
          /\ Update
          /\ Len(errlog) = 1
          /\ errlog[1].error = raised
          /\ errlog[1].message =
                [message_type |-> "certificate_update", all_domains |-> hosts]
          /\ scores = [i \in 1..Len(hosts) |-> 0]

C6_Witness ==
    /\ Returned
    /\ raised = "classifier"
    /\ Len(hosts) >= 2
    /\ Len(errlog) = 1
    /\ ENABLED ListenForEvents

\* C7 as stated: when tldextract raises on one host, only that host is scored
\* 0 and the other hosts of the batch keep the classifier's scores.
C7_OnlyFailedHostNeutral ==
    (Returned /\ raised = "extract") =>
        \A j \in 1..Len(hosts) :
            scores[j] = IF j = fail_at THEN 0 ELSE ClassifierScore(hosts[j])

\* C7 amended: when tldextract raises on one host, the classifier is not
\* called, every host of the batch is scored 0, and one error is logged
\* with the batch message.
C7_ExtractionFailureNeutralisesBatch ==
    (Returned /\ raised = "extract") =>
        /\ fail_at \in 1..Len(hosts)
        /\ clf_calls = 0
        /\ \A j \in 1..Len(hosts) : scores[j] = 0
        /\ Len(errlog) = 1
        /\ errlog[1].message.all_domains = hosts

C7_Witness ==
    /\ Returned
    /\ raised = "extract"
    /\ \E j \in 1..Len(hosts) :
          j # fail_at /\ ClassifierScore(hosts[j]) > 0 /\ scores[j] = 0

(***************************************************************************)
(* Properties of compute_features (checked under SpecFeatures).            *)
(***************************************************************************)
Called == fe_call.made

RECURSIVE StrictlyAscending(_)
StrictlyAscending(names) ==
    \/ Len(names) < 2
    \/ StrLess(names[1], names[2]) /\ StrictlyAscending(Tail(names))

\* the number of names the extractors emit for one sample, repeats counted
Emitted(self) ==
    2 * Len(self.brands) + Len(self.similarity_words) + 1 + Len(self.tlds)
        + Len(self.keywords) + Len(self.fqdn_keywords) + 1 + 1

\* two emissions share a name: the merged mapping is shorter than the emissions
Collides(self) == Len(AnalysisOf[self][HostA]) < Emitted(self)

\* C8: for every list of domains (tldextract not failing) compute_features
\* returns one row per domain, the i-th row being the row of the i-th domain.
C8_OneRowPerDomain ==
    (Called /\ fe_call.failAt = 0) =>
        /\ fe_call.result.raised = "none"
        /\ Len(fe_call.result.values) = Len(fe_call.fqdns)
        /\ \A i \in 1..Len(fe_call.fqdns) :
              fe_call.result.values[i]
                  = DictValues(AnalysisOf[features][fe_call.fqdns[i]])

\* C9: every row of every call has the same columns, the feature names of
\* the configuration in strictly ascending order, with one value per
\* column; the names returned are those columns; the same domain gets the
\* same values wherever it stands in the list.
C9_StableVectorShape ==
    (Called /\ fe_call.result.raised = "none") =>
        LET r == fe_call.result
        IN  /\ Len(r.values) = Len(fe_call.fqdns)
            /\ \A i \in 1..Len(r.values) :
                  /\ StrictlyAscending(r.columns[i])
                  /\ r.columns[i] = DictKeys(AnalysisOf[features][HostA])
                  /\ Len(r.values[i]) = Len(r.columns[i])
            /\ (r.has_names => r.names = r.columns[1])
            /\ \A i, j \in 1..Len(r.values) :
                  fe_call.fqdns[i] = fe_call.fqdns[j] => r.values[i] = r.values[j]

C9_Witness ==
    /\ Called
    /\ fe_call.result.raised = "none"
    /\ fe_call.result.has_names
    /\ Len(fe_call.fqdns) = 2
    /\ fe_call.fqdns[1] # fe_call.fqdns[2]
    /\ fe_call.result.values[1] # fe_call.result.values[2]

\* C10: a configuration in which two emissions share a feature name is never
\* constructed and never reaches compute_features.
C10_CollisionFailsFast ==
    /\ features.constructed => ~Collides(features)
    /\ Called => ~Collides(features)

\* C17: every call of compute_features (tldextract not failing) returns the
\* values, one row per domain; it returns names exactly when values_only is
\* False, and the names are the columns of every row, in their order.
C17_ValuesAlwaysNamesOnRequest ==
    (Called /\ fe_call.failAt = 0) =>
        LET r == fe_call.result
        IN  /\ r.raised = "none"
            /\ Len(r.values) = Len(fe_call.fqdns)
            /\ r.has_names = ~fe_call.values_only
            /\ r.has_names => \A i \in 1..Len(r.columns) : r.columns[i] = r.names

(***************************************************************************)
(* Properties of _remove_common_hosts and of the extractors on one name    *)
(* (checked under SpecSample).                                             *)
(***************************************************************************)
Normalised == norm.made

Sampled == sample_call.made

\* position i holds the first '.' of s
FirstPeriodAt(s, i) == s[i] = "." /\ \A j \in 1..(i - 1) : s[j] # "."

\* C11: normalising the result of a normalisation changes nothing.
C11_NormalizationIdempotent ==
    (Normalised /\ norm.again) => norm.result = norm.fqdn

\* C12: the result is the text after the first '.' when the name has a '.'
\* and the label before it is one of '*', 'www', 'mail', 'cpanel',
\* 'webmail', 'webdisk', 'autodiscover'; otherwise it is the name itself.
C12_StripsOneCommonHost ==
    Normalised =>
        LET s == norm.fqdn
            cut == {i \in 1..Len(s) :
                       FirstPeriodAt(s, i) /\ SubSeq(s, 1, i - 1) \in common_hosts}
        IN  /\ \A i \in cut : norm.result = SubSeq(s, i + 1, Len(s))
            /\ cut = {} => norm.result = s

C12_Witness ==
    /\ Normalised
    /\ ~norm.again
    /\ norm.fqdn = Str_www \o <<".">> \o Str_wvw \o <<".">> \o Str_tk
    /\ norm.result = Str_wvw \o <<".">> \o Str_tk

Alnum == WordChars \ {"_"}

\* C13: the token list of a name has no empty token and its tokens hold
\* letters and digits only.
C13_TokensNeverEmpty ==
    Sampled =>
        \A i \in 1..Len(sample_call.sample.fqdn_words) :
            LET token == sample_call.sample.fqdn_words[i]
            IN  /\ token # <<>>
                /\ \A j \in 1..Len(token) : token[j] \in Alnum

\* the name holds the punycode marker 'xn--'
HasMarker(s) ==
    \E i \in 1..(Len(s) - 3) :
        s[i] = "x" /\ s[i + 1] = "n" /\ s[i + 2] = "-" /\ s[i + 3] = "-"

Feature(name) == DictGet(sample_call.analysis, name)

\* C14: num_dashes is 0 when the normalised name holds 'xn--', and the
\* number of '-' in the normalised name otherwise.
C14_DashCount ==
    Sampled =>
        LET s == sample_call.sample.fqdn
        IN  /\ s = RemoveCommonHosts(sample_call.fqdn)
            /\ Feature(<<"n", "u", "m", "_", "d", "a", "s", "h", "e", "s">>)
                  = IF HasMarker(s) THEN 0
                    ELSE Cardinality({i \in 1..Len(s) : s[i] = "-"})

C14_Witness ==
    /\ Sampled
    /\ sample_call.fqdn = Str_xn_a \o <<".">> \o Str_a_dash_b \o <<".">> \o Str_tk
    /\ Feature(<<"n", "u", "m", "_", "d", "a", "s", "h", "e", "s">>) = 0

\* s without its i-th character
Without(s, i) == SubSeq(s, 1, i - 1) \o SubSeq(s, i + 1, Len(s))

\* t and w are one substitution, one insertion or one deletion apart
OneEdit(t, w) ==
    \/ Len(t) = Len(w) /\ Cardinality({i \in 1..Len(t) : t[i] # w[i]}) = 1
    \/ Len(t) = Len(w) + 1 /\ \E i \in 1..Len(t) : Without(t, i) = w
    \/ Len(w) = Len(t) + 1 /\ \E i \in 1..Len(w) : Without(w, i) = t

\* C15: for every similarity word w, '<w>_lev_1' is 1 when some token of
\* the name is one edit away from w and 0 otherwise.
C15_NearMissIndicator ==
    Sampled =>
        \A k \in 1..Len(features.similarity_words) :
            LET w == features.similarity_words[k]
                tokens == sample_call.sample.fqdn_words
            IN  Feature(w \o <<"_", "l", "e", "v", "_", "1">>)
                    = Bit(\E i \in 1..Len(tokens) : OneEdit(tokens[i], w))

\* 'a.ab.tk' against the word 'ab': the first token is one edit away, the
\* two after it are an exact match and two edits away.
C15_Witness ==
    /\ Sampled
    /\ sample_call.fqdn = <<"a", ".">> \o Str_ab \o <<".">> \o Str_tk
    /\ sample_call.sample.fqdn_words = <<<<"a">>, Str_ab, Str_tk>>
    /\ Feature(Str_ab \o <<"_", "l", "e", "v", "_", "1">>) = 1

\* the characters of a label, and how often one occurs in it
CharsOf(label) == {label[i] : i \in 1..Len(label)}

TimesIn(label, c) == Cardinality({i \in 1..Len(label) : label[i] = c})

\* C16: the entropy of the domain label (in thousandths) is 0 for the empty
\* label and for one repeated character, and log2(n) for n distinct
\* characters of equal frequency: 2.0 for '1234'.
C16_DomainEntropy ==
    Sampled =>
        LET label == sample_call.sample.domain
            n == Cardinality(CharsOf(label))
            e == Feature(<<"e", "n", "t", "r", "o", "p", "y">>)
        IN  /\ label = <<>> => e = 0
            /\ n = 1 => e = 0
            /\ (n >= 1 /\ \A c, d \in CharsOf(label) : TimesIn(label, c) = TimesIn(label, d))
                  => e = Log2Milli[n]
            /\ label = Str_1234 => e = 2000

C16_Witness ==
    /\ Sampled
    /\ sample_call.fqdn = Str_1234 \o <<".">> \o Str_tk
    /\ sample_call.sample.domain = Str_1234
    /\ Feature(<<"e", "n", "t", "r", "o", "p", "y">>) = 2000

(***************************************************************************)
(* Properties of the menu, the store and the deployed predictor (checked   *)
(* under SpecCli).                                                         *)
(***************************************************************************)
\* the last handler that ran was the deployment of selection 1 or 2
DeployRan == cli_call.made /\ cli_call.handler = "deploy"

\* a PhishPredictor exists and is scoring
Deployed == pc \in {"manual", "listening", "returned", "stalled", "interrupted"}

\* the feature names an extractor gives to every name
FeatureVector(self) == DictKeys(AnalysisOf[self][HostA])

\* C18: when the active classifier of config.yaml is not in the store, the
\* deployment raises IOError with the hint after one look at the store's
\* names and no fetch; the CLI prints the message and is at the main menu
\* again, with no predictor and nothing scored.  When it is in the store, no
\* IOError is raised.
C18_MissingClassifierRaisesAtStartup ==
    DeployRan =>
        IF ~\E i \in 1..Len(store) : store[i].name = config_file
        THEN /\ cli_call.raised = "IOError"
             /\ cli_call.out = <<ActiveClassifierNotFound>>
             /\ cli_call.db_ops = <<"available_classifiers">>
             /\ pc = "menu"
             /\ features = NoFeatures
             /\ classifier = NoClassifier
             /\ score_calls = 0
        ELSE /\ cli_call.raised = "none"
             /\ Deployed

C18_Witness ==
    /\ DeployRan
    /\ cli_call.raised = "IOError"
    /\ store # <<>>
    /\ pc = "menu"

C20_ExtractorTravelsWithModel ==
    /\ \A i \in 1..Len(store) :
          LET a == store[i].artifacts
          IN  /\ DOMAIN a = {"metrics", "classifier", "feature_extractor"}
              /\ RestorePythonObject(a.classifier).n_features
                    = Len(FeatureVector(RestorePythonObject(a.feature_extractor)))
    /\ Deployed =>
          /\ \E i \in 1..Len(store) :
                /\ store[i].name = config_file
                /\ features = RestorePythonObject(store[i].artifacts.feature_extractor)
                /\ classifier = RestorePythonObject(store[i].artifacts.classifier)
          /\ classifier.n_features = Len(FeatureVector(features))
    /\ (pc = "manual" /\ cli_call.handler = "manual_score") =>
          /\ fe_call.result.raised = "none"
          /\ fe_call.result.names = FeatureVector(features)
          /\ Len(fe_call.result.values[1]) = classifier.n_features

C20_Witness ==
    /\ pc = "manual"
    /\ cli_call.handler = "manual_score"
    /\ disk # features
    /\ FeatureVector(disk) # FeatureVector(features)
    /\ fe_call.result.names = FeatureVector(features)

(***************************************************************************)
(* More properties of the certstream callback (checked under Spec).        *)
(***************************************************************************)
\* C25: for a certificate_update the callback calls _score once, on the list
\* left by the wildcard loop, and the scores are paired with that same list
\* for the tier evaluation; for a heartbeat or any other message type it
\* scores nothing, logs nothing and reports nothing.
C25_OneScoringCallPerUpdate ==
    Returned =>
        IF Update
        THEN /\ score_calls = 1
             /\ hosts = RemoveWildcardDuplicates(message.all_domains)
             /\ Len(scores) = Len(hosts)
             /\ \A k \in 1..Len(events) :
                   /\ events[k].entry \in 1..Len(hosts)
                   /\ events[k].host = hosts[events[k].entry]
                   /\ events[k].score = scores[events[k].entry]
        ELSE /\ score_calls = 0
             /\ clf_calls = 0
             /\ hosts = <<>>
             /\ scores = <<>>
             /\ errlog = <<>>
             /\ events = <<>>

\* A batch that lost a host to the wildcard loop was scored once and
\* reported.
C25_Witness ==
    /\ Returned
    /\ Update
    /\ score_calls = 1
    /\ Len(message.all_domains) = 3
    /\ Len(hosts) = 2
    /\ Len(events) = 2

\* C29: when _score raised and the tier thresholds are all >= 0, no host of
\* the batch is reported; the logged error is the only trace of the batch.
C29_FailedBatchIsSilent ==
    (Returned /\ raised # "none"
        /\ \A j \in 1..Len(log_tiers) : log_tiers[j].threshold >= 0)
        => /\ events = <<>>
           /\ Len(errlog) = 1

\* A failed batch of two hosts under a tier of threshold 0.
C29_Witness ==
    /\ Returned
    /\ raised # "none"
    /\ Len(hosts) >= 2
    /\ log_tiers = <<Tier("any", 0)>>
    /\ events = <<>>
    /\ Len(errlog) = 1

(***************************************************************************)
(* Properties of certstream mode under the menu (checked under SpecCli).   *)
(***************************************************************************)
\* C21: a stop signal takes effect at a batch boundary only: when CTRL+C has
\* ended a callback that was given a certificate_update, the batch was
\* scored and every host of it went through the tier evaluation.
C21_AdmittedBatchRunsToCompletion ==
    (pc = "interrupted" /\ message.message_type = "certificate_update")
        => /\ score_calls = 1
           /\ Len(scores) = Len(hosts)
           /\ events = HostLoop(log_tiers, hosts, scores, 1)

\* C22: a stalled classifier does not block the ingestion of later batches:
\* while the callback is stalled inside _score the listener can still hand
\* over a message of the feed.
C22_StalledClassifierLeavesFeedServed ==
    pc = "stalled" => ENABLED CertstreamModeDeployed

(***************************************************************************)
(* Properties of the menu's handlers (checked under SpecCli).              *)
(***************************************************************************)
\* C23: an assignment to PhishConfig.active_classifier asks the store once;
\* for a name that is not stored it raises ValueError and leaves the
\* configuration in memory and config.yaml as they were; for a stored name
\* both become that name.
C23_SetterVerifiesThenSaves ==
    [][(pc = "change_prompt" /\ cli_call' # cli_call)
          => /\ cli_call'.handler = "change"
             /\ cli_call'.db_ops = <<"available_classifiers">>
             /\ IF \E i \in 1..Len(store) : store[i].name = cli_call'.mode
                THEN /\ cli_call'.raised = "none"
                     /\ config' = cli_call'.mode
                     /\ config_file' = cli_call'.mode
                ELSE /\ cli_call'.raised = "ValueError"
                     /\ config' = config
                     /\ config_file' = config_file]_vars

\* A name that is not stored was refused after another one had been set.
C23_Witness ==
    /\ cli_call.made
    /\ cli_call.handler = "change"
    /\ cli_call.raised = "ValueError"
    /\ cli_call.mode = "typo"
    /\ config = "second"
    /\ config_file = "second"

\* C26: _manual_mode leaves its loop exactly on an input that lower-cases to
\* 'exit' or 'quit', announcing the return and scoring nothing; every other
\* input is scored, reported as PHISHING exactly when its score is >= 0.5,
\* and the prompt is shown again.
C26_ManualModeLoop ==
    (cli_call.made /\ cli_call.handler \in {"manual_score", "manual_quit"})
        => IF Lower(cli_call.typed) \in {Str_quit, Str_exit}
           THEN /\ pc = "menu"
                /\ cli_call.handler = "manual_quit"
                /\ cli_call.out = <<"[+] Returning to main menu.">>
                /\ cli_call.score = -1
           ELSE /\ pc = "manual"
                /\ cli_call.handler = "manual_score"
                /\ cli_call.raised = "none"
                /\ cli_call.score >= 0
                /\ cli_call.out = <<IF cli_call.score >= 10 THEN "[PHISHING]"
                                    ELSE "[NOT PHISHING]">>

\* C27: the store never holds two classifiers of the same name.
C27_NoTwoClassifiersOfOneName ==
    \A i, j \in 1..Len(store) : store[i].name = store[j].name => i = j

\* C30: an active classifier other than the one config.yaml is shipped with
\* was set through the menu, and names a classifier that is in the store.
C30_ActiveClassifierIsStored ==
    config # DefaultName => \E i \in 1..Len(store) : store[i].name = config

(***************************************************************************)
(* Properties of the classifier store (checked under SpecDb).              *)
(***************************************************************************)
\* C24: after any sequence of save_classifier and delete_classifier calls
\* the stored values have no 'classifier_name' field, available_classifiers
\* returns exactly the names saved and not deleted since, and
\* verify_classifier_existence is true for exactly those names.
C24_AvailableAreSavedNotDeleted ==
    /\ \A i \in 1..Len(store) : "classifier_name" \notin DOMAIN store[i].artifacts
    /\ AvailableClassifiers(store) = Live
    /\ \A n \in DbNames : VerifyClassifierExistence(store, n) <=> InList(n, Live)

(***************************************************************************)
(* Properties of the training data (checked under SpecLoad).               *)
(***************************************************************************)
\* C28: a domain read from the benign files keeps the label 0 whatever the
\* malicious files hold, and every domain keeps the place of its first
\* occurrence.
C28_FirstOccurrenceKeepsLabel ==
    load_call.made =>
        \A i \in 1..Len(load_call.benign) :
            LET domain == StripNewlines(load_call.benign[i])
            IN  /\ DictHas(load_call.training_data, domain)
                /\ DictGet(load_call.training_data, domain) = 0

====
